---- MODULE Spec2Model ----
(***************************************************************************)
(* Model of chatbot/server.py: the shared globals prompt, visible,         *)
(* remember and context, the send_update worker thread (with ask inlined   *)
(* at its call site), the send_message request handler and the index       *)
(* page-load handler.  Every step is one statement of the source, named     *)
(* after its line, so that the interleavings of the three threads are the  *)
(* interleavings of the statements.  Requests to /send_message are served  *)
(* one at a time; DEBUG is False.                                          *)
(*                                                                         *)
(* A text is a sequence of pieces [src, lo, hi]: the characters lo..hi of  *)
(* the source string src.  Slicing and concatenation are computed on       *)
(* pieces, so lengths and contents are exact without enumerating           *)
(* characters.                                                             *)
(***************************************************************************)
EXTENDS Integers, Sequences, FiniteSets, TLC

VARIABLES
    prompt,          \* global prompt (line 60); <<>> is ""
    visible,         \* global visible (line 61)
    remember,        \* global remember (line 62)
    context,         \* global context (line 68)
    pc,              \* send_update thread: line about to be executed
    update_text,     \* send_update local (line 178)
    p,               \* ask's parameter prompt (line 71)
    exc,             \* exception caught at line 87: "none", "overflow", "other"
    response,        \* events left in the stream returned by create
    completion_text, \* send_update local (line 184)
    hpc,             \* send_message handler: line about to be executed
    req,             \* the request the handler is serving
    nsub,            \* requests received so far
    overflowsLeft,   \* overflow answers the provider may still give to this ask call
    open,            \* provider calls started and not yet ended
    sent,            \* messages of the last provider request
    bcast,           \* socketio.emit records since the last pickup
    ctxBefore,       \* context just before the last append of line 79
    startLen,        \* len(context) when ask was entered
    shrinks,         \* overflow handlings in the current ask call
    cuts,            \* of which prompt cuts (line 93)
    rung,            \* branch taken by the last handler run: 0 none, 1, 2, 3
    clean,           \* no reset, overflow or request since the pickup
    dropped,         \* line 107 ran in the current exchange
    errs,            \* error messages emitted in the current exchange
    streamFailed,    \* the stream of the current exchange raised
    slotId,          \* request that wrote the current prompt (0: none)
    utId,            \* request whose text is in update_text
    pId,             \* request whose text ask received
    erased,          \* request whose unread text the last line 204 erased (0: none)
    lostId,          \* last request whose text was overwritten before the worker read it
    resetInStream    \* index ran while the current exchange was at line 186 or 196

vars == <<prompt, visible, remember, context, pc, update_text, p, exc,
          response, completion_text, hpc, req, nsub, overflowsLeft, open, sent,
          bcast, ctxBefore, startLen, shrinks, cuts, rung, clean, dropped,
          errs, streamFailed, slotId, utId, pId, erased, lostId,
          resetInStream>>

----------------------------------------------------------------------------
(* Bounds *)

MaxSubmits == 2       \* requests to /send_message

MaxOverflows == 2     \* overflow answers per ask call

MaxTurns == 7         \* longest context the ladder is started from

LadderOverflows == 6  \* overflow answers per ask call when the ladder is run alone

----------------------------------------------------------------------------
(* Texts *)

Piece(s, lo, hi) == [src |-> s, lo |-> lo, hi |-> hi]

Lit(s, n) == << Piece(s, 1, n) >>

PLen(x) == x.hi - x.lo + 1

RECURSIVE TLen(_)
TLen(t) == IF t = <<>> THEN 0 ELSE PLen(t[1]) + TLen(Tail(t))

Max(a, b) == IF a >= b THEN a ELSE b

RECURSIVE Take(_, _)
Take(t, k) ==
    IF k <= 0 \/ t = <<>> THEN <<>>
    ELSE IF PLen(t[1]) <= k
         THEN <<t[1]>> \o Take(Tail(t), k - PLen(t[1]))
         ELSE << Piece(t[1].src, t[1].lo, t[1].lo + k - 1) >>

RECURSIVE Drop(_, _)
Drop(t, k) ==
    IF t = <<>> THEN <<>>
    ELSE IF k <= 0 THEN t
    ELSE IF PLen(t[1]) <= k
         THEN Drop(Tail(t), k - PLen(t[1]))
         ELSE << Piece(t[1].src, t[1].lo + k, t[1].hi) >> \o Tail(t)

\* Python s[:j]
SliceTo(t, j) == IF j < 0 THEN Take(t, Max(TLen(t) + j, 0)) ELSE Take(t, j)

\* Python s[i:]
SliceFrom(t, i) == IF i < 0 THEN Drop(t, Max(TLen(t) + i, 0)) ELSE Drop(t, i)

PromptLimit == 1000

ContextLimit == 4

Separator == Lit(" ... ", 5)

\* line 93 without the separator
CutNoSeparator(t) ==
    SliceTo(t, TLen(t) \div 4) \o SliceFrom(t, (-TLen(t)) \div 4)

\* line 93
Cut(t) ==
    SliceTo(t, TLen(t) \div 4) \o Separator \o SliceFrom(t, (-TLen(t)) \div 4)

----------------------------------------------------------------------------
(* Turns and contexts *)

baseprompt == Lit("baseprompt", 120)

Turn(r, c) == [role |-> r, content |-> c]

BaseContext == << Turn("system", baseprompt) >>

\* a pop that removes nothing
PopKeep(c) == c

\* list.pop() of a non-empty list
Pop(c) == SubSeq(c, 1, Len(c) - 1)

\* context[:1] + context[2:]
TruncateOne(c) == SubSeq(c, 1, 1) \o SubSeq(c, 3, Len(c))

\* line 97: context[:1] + context[3:]
Truncate(c) == SubSeq(c, 1, 1) \o SubSeq(c, 4, Len(c))

\* lines 91-103 with the assignment of line 101 lost
LadderNoReset(c, t) ==
    IF TLen(t) > PromptLimit
    THEN [rung |-> 1, context |-> c, prompt |-> Cut(t)]
    ELSE IF Len(c) > ContextLimit
    THEN [rung |-> 2, context |-> Truncate(c), prompt |-> t]
    ELSE [rung |-> 3, context |-> c, prompt |-> t]

\* lines 91-103: the branch taken for context c and prompt t, and what it
\* leaves in context and prompt
Ladder(c, t) ==
    IF TLen(t) > PromptLimit
    THEN [rung |-> 1, context |-> c, prompt |-> Cut(t)]
    ELSE IF Len(c) > ContextLimit
    THEN [rung |-> 2, context |-> Truncate(c), prompt |-> t]
    ELSE [rung |-> 3, context |-> BaseContext, prompt |-> t]

Emit(u, v) == [update |-> u, voice |-> v]

MemoryReset == Emit(Lit("[Memory Reset]", 14), "user")

ErrorMsg == Emit(Lit("An error occurred - unable to complete.", 39), "ai")

DoneMsg == Emit(<<>>, "done")

----------------------------------------------------------------------------
(* Inputs *)

Hello == Lit("Hello", 5)

Long == Lit("long prompt", 1200)

Url == Lit("http://blog", 11)

BlogText == Lit("blog text", 2400)

Summarize == Lit("Summarize the following text:\n", 30)

\* request.json of a POST to /send_message, with the result that
\* extract_text_from_blog will give for a URL
Requests ==
    { [text |-> Hello, show |-> TRUE,  fetch |-> "none"],
      [text |-> Url,   show |-> TRUE,  fetch |-> "text"],
      [text |-> Url,   show |-> TRUE,  fetch |-> "none"] }

NoReq == [text |-> <<>>, show |-> TRUE, fetch |-> "none"]

\* str.startswith("http")
StartsWithHttp(t) == Take(t, 4) = Take(Url, 4)

Content(t) == [kind |-> "content", text |-> t]

RoleOnly == [kind |-> "role", text |-> <<>>]

\* event streams the provider can return
Streams ==
    { << RoleOnly, Content(Lit("It is", 5)), Content(Lit(" Friday.", 8)) >> }

----------------------------------------------------------------------------
(* Initial state: the module has been imported and the thread started *)

Init ==
    /\ prompt = <<>>
    /\ visible = TRUE
    /\ remember = TRUE
    /\ context = BaseContext
    /\ pc = "l175"
    /\ update_text = <<>>
    /\ p = <<>>
    /\ exc = "none"
    /\ response = <<>>
    /\ completion_text = <<>>
    /\ hpc = "idle"
    /\ req = NoReq
    /\ nsub = 0
    /\ overflowsLeft = MaxOverflows
    /\ open = 0
    /\ sent = <<>>
    /\ bcast = <<>>
    /\ ctxBefore = BaseContext
    /\ startLen = 1
    /\ shrinks = 0
    /\ cuts = 0
    /\ rung = 0
    /\ clean = TRUE
    /\ dropped = FALSE
    /\ errs = 0
    /\ streamFailed = FALSE
    /\ slotId = 0
    /\ utId = 0
    /\ pId = 0
    /\ erased = 0
    /\ lostId = 0
    /\ resetInStream = FALSE

InExchange == pc # "l175"

----------------------------------------------------------------------------
(* index (lines 129-134) *)

Index ==
    /\ context' = BaseContext
    /\ clean' = (clean /\ ~InExchange)
    /\ resetInStream' = (resetInStream \/ pc \in {"l186", "l196"})
    /\ UNCHANGED <<prompt, visible, remember, pc, update_text, p, exc,
                   response, completion_text, hpc, req, nsub, overflowsLeft,
                   open, sent, bcast, ctxBefore, startLen, shrinks, cuts,
                   rung, dropped, errs, streamFailed, slotId, utId, pId,
                   erased, lostId>>

----------------------------------------------------------------------------
(* send_message (lines 143-163) *)

workerVars == <<pc, update_text, p, exc, response, completion_text,
                overflowsLeft, open, sent>>

hHist == <<ctxBefore, startLen, shrinks, cuts, rung, dropped, errs,
           streamFailed, utId, pId, erased, resetInStream>>

\* a request arrives: lines 147-149
Receive ==
    /\ hpc = "idle"
    /\ nsub < MaxSubmits
    /\ \E r \in Requests : req' = r
    /\ nsub' = nsub + 1
    /\ hpc' = "l150"
    /\ clean' = (clean /\ ~InExchange)
    /\ UNCHANGED <<prompt, visible, remember, context, workerVars, bcast,
                   hHist, slotId, lostId>>

\* line 150 and the test of line 152
H150 ==
    /\ hpc = "l150"
    /\ visible' = req.show
    /\ hpc' = IF StartsWithHttp(req.text) THEN "l155" ELSE "l162"
    /\ UNCHANGED <<prompt, remember, context, workerVars, req, nsub, bcast,
                   hHist, clean, slotId, lostId>>

\* line 155
H155 ==
    /\ hpc = "l155"
    /\ visible' = FALSE
    /\ hpc' = "l156"
    /\ UNCHANGED <<prompt, remember, context, workerVars, req, nsub, bcast,
                   hHist, clean, slotId, lostId>>

\* line 156
H156 ==
    /\ hpc = "l156"
    /\ remember' = FALSE
    /\ hpc' = "l157"
    /\ UNCHANGED <<prompt, visible, context, workerVars, req, nsub, bcast,
                   hHist, clean, slotId, lostId>>

\* lines 157-159: the fetch; len(None) raises and ends the handler
H157 ==
    /\ hpc = "l157"
    /\ IF req.fetch = "none"
       THEN /\ hpc' = "idle"
            /\ req' = NoReq
            /\ bcast' = bcast
       ELSE /\ hpc' = "l160"
            /\ req' = req
            /\ bcast' = Append(bcast,
                   Emit(Lit("[Reading: ", 10) \o req.text \o Lit("]", 1), "user"))
    /\ UNCHANGED <<prompt, visible, remember, context, workerVars, nsub,
                   hHist, clean, slotId, lostId>>

\* the write of the slot, with the bookkeeping of which request it holds
Store(t) ==
    /\ prompt' = t
    /\ slotId' = nsub
    /\ lostId' = IF slotId \notin {0, utId, pId} THEN slotId ELSE lostId

\* line 160
H160 ==
    /\ hpc = "l160"
    /\ Store(Summarize \o BlogText)
    /\ hpc' = "idle"
    /\ req' = NoReq
    /\ UNCHANGED <<visible, remember, context, workerVars, nsub, bcast,
                   hHist, clean>>

\* line 162 followed by a provider call made by the handler itself
H162Spawn ==
    /\ hpc = "l162"
    /\ Store(req.text)
    /\ hpc' = "idle"
    /\ req' = NoReq
    /\ open' = open + 1
    /\ UNCHANGED <<visible, remember, context, pc, update_text, p, exc,
                   response, completion_text, overflowsLeft, sent, nsub,
                   bcast, hHist, clean>>

\* line 162
H162 ==
    /\ hpc = "l162"
    /\ Store(req.text)
    /\ hpc' = "idle"
    /\ req' = NoReq
    /\ UNCHANGED <<visible, remember, context, workerVars, nsub, bcast,
                   hHist, clean>>

SendMessage == Receive \/ H150 \/ H155 \/ H156 \/ H157 \/ H160 \/ H162

----------------------------------------------------------------------------
(* send_update (lines 171-206), with ask (lines 71-108) at its call site *)

\* lines 175-178: the test of the slot and the copy into update_text
Pickup ==
    /\ pc = "l175"
    /\ prompt # <<>>
    /\ update_text' = prompt
    /\ utId' = slotId
    /\ bcast' = <<>>
    /\ clean' = (hpc = "idle")
    /\ dropped' = FALSE
    /\ errs' = 0
    /\ streamFailed' = FALSE
    /\ rung' = 0
    /\ erased' = 0
    /\ resetInStream' = FALSE
    /\ pc' = "l179"
    /\ UNCHANGED <<prompt, visible, remember, context, p, exc, response,
                   completion_text, hpc, req, nsub, overflowsLeft, open,
                   sent, ctxBefore, startLen, shrinks, cuts, slotId, pId,
                   lostId>>

\* lines 179-180
L179 ==
    /\ pc = "l179"
    /\ bcast' = IF visible THEN Append(bcast, Emit(update_text, "user")) ELSE bcast
    /\ pc' = "l183"
    /\ UNCHANGED <<prompt, visible, remember, context, update_text, p, exc,
                   response, completion_text, hpc, req, nsub,
                   overflowsLeft, open, sent, ctxBefore, startLen, shrinks,
                   cuts, rung, clean, dropped, errs, streamFailed, slotId,
                   utId, pId, erased, lostId, resetInStream>>

\* line 183, the call ask(prompt), and lines 74-76
L183 ==
    /\ pc = "l183"
    /\ p' = prompt
    /\ pId' = slotId
    /\ exc' = "none"
    /\ startLen' = Len(context)
    /\ shrinks' = 0
    /\ cuts' = 0
    /\ overflowsLeft' = MaxOverflows
    /\ pc' = "l79"
    /\ UNCHANGED <<prompt, visible, remember, context, update_text,
                   response, completion_text, hpc, req, nsub, open, sent,
                   bcast, ctxBefore, rung, clean, dropped, errs,
                   streamFailed, slotId, utId, erased, lostId,
                   resetInStream>>

\* line 79
L79 ==
    /\ pc = "l79"
    /\ ctxBefore' = context
    /\ context' = Append(context, Turn("user", p))
    /\ pc' = "l80"
    /\ UNCHANGED <<prompt, visible, remember, update_text, p, exc,
                   response, completion_text, hpc, req, nsub,
                   overflowsLeft, open, sent, bcast, startLen, shrinks,
                   cuts, rung, clean, dropped, errs, streamFailed, slotId,
                   utId, pId, erased, lostId, resetInStream>>

\* lines 80-86: the request is made from the list context names now
L80 ==
    /\ pc = "l80"
    /\ sent' = context
    /\ open' = open + 1
    /\ pc' = "l86"
    /\ UNCHANGED <<prompt, visible, remember, context, update_text, p, exc,
                   response, completion_text, hpc, req, nsub,
                   overflowsLeft, bcast, ctxBefore, startLen, shrinks,
                   cuts, rung, clean, dropped, errs, streamFailed, slotId,
                   utId, pId, erased, lostId, resetInStream>>

\* create returns the event stream
CreateOk ==
    /\ pc = "l86"
    /\ \E s \in Streams : response' = s
    /\ exc' = "none"
    /\ pc' = "l105"
    /\ UNCHANGED <<prompt, visible, remember, context, update_text, p,
                   completion_text, hpc, req, nsub, overflowsLeft, open,
                   sent, bcast, ctxBefore, startLen, shrinks, cuts, rung,
                   clean, dropped, errs, streamFailed, slotId, utId, pId,
                   erased, lostId, resetInStream>>

\* create raises an OpenAIError whose text has "maximum context length"
CreateOverflow ==
    /\ pc = "l86"
    /\ overflowsLeft > 0
    /\ overflowsLeft' = overflowsLeft - 1
    /\ exc' = "overflow"
    /\ open' = open - 1
    /\ pc' = "l89"
    /\ UNCHANGED <<prompt, visible, remember, context, update_text, p,
                   response, completion_text, hpc, req, nsub, sent, bcast,
                   ctxBefore, startLen, shrinks, cuts, rung, clean,
                   dropped, errs, streamFailed, slotId, utId, pId, erased,
                   lostId, resetInStream>>

\* create raises any other OpenAIError
CreateOther ==
    /\ pc = "l86"
    /\ exc' = "other"
    /\ open' = open - 1
    /\ pc' = "l89"
    /\ UNCHANGED <<prompt, visible, remember, context, update_text, p,
                   response, completion_text, hpc, req, nsub,
                   overflowsLeft, sent, bcast, ctxBefore, startLen,
                   shrinks, cuts, rung, clean, dropped, errs, streamFailed,
                   slotId, utId, pId, erased, lostId, resetInStream>>

\* line 89; pop of an empty list raises IndexError, caught at line 197
L89 ==
    /\ pc = "l89"
    /\ IF context = <<>>
       THEN /\ context' = context
            /\ pc' = "l199"
       ELSE /\ context' = Pop(context)
            /\ pc' = "l90"
    /\ UNCHANGED <<prompt, visible, remember, update_text, p, exc,
                   response, completion_text, hpc, req, nsub,
                   overflowsLeft, open, sent, bcast, ctxBefore, startLen,
                   shrinks, cuts, rung, clean, dropped, errs, streamFailed,
                   slotId, utId, pId, erased, lostId, resetInStream>>

\* lines 90-103 with the emit of line 103 moved out of the else branch
L90AlwaysNotify ==
    /\ pc = "l90"
    /\ IF exc = "overflow"
       THEN /\ shrinks' = shrinks + 1
            /\ clean' = FALSE
            /\ p' = Ladder(context, p).prompt
            /\ context' = Ladder(context, p).context
            /\ rung' = Ladder(context, p).rung
            /\ cuts' = IF Ladder(context, p).rung = 1 THEN cuts + 1 ELSE cuts
            /\ bcast' = Append(bcast, MemoryReset)
       ELSE /\ rung' = 0
            /\ UNCHANGED <<shrinks, clean, p, cuts, context, bcast>>
    /\ pc' = "l79"
    /\ UNCHANGED <<prompt, visible, remember, update_text, exc, response,
                   completion_text, hpc, req, nsub, overflowsLeft, open,
                   sent, ctxBefore, startLen, dropped, errs, streamFailed,
                   slotId, utId, pId, erased, lostId, resetInStream>>

\* lines 90-103 and the loop test of line 76: response is still False
L90 ==
    /\ pc = "l90"
    /\ IF exc = "overflow"
       THEN /\ shrinks' = shrinks + 1
            /\ clean' = FALSE
            /\ p' = Ladder(context, p).prompt
            /\ context' = Ladder(context, p).context
            /\ rung' = Ladder(context, p).rung
            /\ cuts' = IF Ladder(context, p).rung = 1 THEN cuts + 1 ELSE cuts
            /\ bcast' = IF Ladder(context, p).rung = 3
                        THEN Append(bcast, MemoryReset) ELSE bcast
       ELSE /\ rung' = 0
            /\ UNCHANGED <<shrinks, clean, p, cuts, context, bcast>>
    /\ pc' = "l79"
    /\ UNCHANGED <<prompt, visible, remember, update_text, exc, response,
                   completion_text, hpc, req, nsub, overflowsLeft, open,
                   sent, ctxBefore, startLen, dropped, errs, streamFailed,
                   slotId, utId, pId, erased, lostId, resetInStream>>

\* line 105; when remember holds ask returns and line 184 runs
L105 ==
    /\ pc = "l105"
    /\ IF remember
       THEN /\ pc' = "l186"
            /\ completion_text' = <<>>
       ELSE /\ pc' = "l106"
            /\ completion_text' = completion_text
    /\ UNCHANGED <<prompt, visible, remember, context, update_text, p, exc,
                   response, hpc, req, nsub, overflowsLeft, open, sent,
                   bcast, ctxBefore, startLen, shrinks, cuts, rung, clean,
                   dropped, errs, streamFailed, slotId, utId, pId, erased,
                   lostId, resetInStream>>

\* line 106
L106 ==
    /\ pc = "l106"
    /\ remember' = TRUE
    /\ pc' = "l107"
    /\ UNCHANGED <<prompt, visible, context, update_text, p, exc, response,
                   completion_text, hpc, req, nsub, overflowsLeft, open,
                   sent, bcast, ctxBefore, startLen, shrinks, cuts, rung,
                   clean, dropped, errs, streamFailed, slotId, utId, pId,
                   erased, lostId, resetInStream>>

\* line 107, the return of line 108 and line 184
L107 ==
    /\ pc = "l107"
    /\ IF context = <<>>
       THEN /\ context' = context
            /\ dropped' = dropped
            /\ open' = open - 1
            /\ pc' = "l199"
       ELSE /\ context' = Pop(context)
            /\ dropped' = TRUE
            /\ open' = open
            /\ pc' = "l186"
    /\ completion_text' = <<>>
    /\ UNCHANGED <<prompt, visible, remember, update_text, p, exc,
                   response, hpc, req, nsub, overflowsLeft, sent, bcast,
                   ctxBefore, startLen, shrinks, cuts, rung, clean, errs,
                   streamFailed, slotId, utId, pId, erased, lostId,
                   resetInStream>>

\* lines 186-194 with line 190 assigning the chunk instead of adding it
StreamEventOverwrite ==
    /\ pc = "l186"
    /\ response # <<>>
    /\ response' = Tail(response)
    /\ IF Head(response).kind = "content"
       THEN /\ completion_text' = Head(response).text
            /\ bcast' = Append(bcast, Emit(Head(response).text, "ai"))
       ELSE UNCHANGED <<completion_text, bcast>>
    /\ UNCHANGED <<prompt, visible, remember, context, pc, update_text, p,
                   exc, hpc, req, nsub, overflowsLeft, open, sent,
                   ctxBefore, startLen, shrinks, cuts, rung, clean,
                   dropped, errs, streamFailed, slotId, utId, pId, erased,
                   lostId, resetInStream>>

\* lines 186-194: one event of the stream
StreamEvent ==
    /\ pc = "l186"
    /\ response # <<>>
    /\ response' = Tail(response)
    /\ IF Head(response).kind = "content"
       THEN /\ completion_text' = completion_text \o Head(response).text
            /\ bcast' = Append(bcast, Emit(Head(response).text, "ai"))
       ELSE UNCHANGED <<completion_text, bcast>>
    /\ UNCHANGED <<prompt, visible, remember, context, pc, update_text, p,
                   exc, hpc, req, nsub, overflowsLeft, open, sent,
                   ctxBefore, startLen, shrinks, cuts, rung, clean,
                   dropped, errs, streamFailed, slotId, utId, pId, erased,
                   lostId, resetInStream>>

\* line 186: the stream is exhausted
StreamEnd ==
    /\ pc = "l186"
    /\ response = <<>>
    /\ open' = open - 1
    /\ pc' = "l196"
    /\ UNCHANGED <<prompt, visible, remember, context, update_text, p, exc,
                   response, completion_text, hpc, req, nsub,
                   overflowsLeft, sent, bcast, ctxBefore, startLen,
                   shrinks, cuts, rung, clean, dropped, errs, streamFailed,
                   slotId, utId, pId, erased, lostId, resetInStream>>

\* line 186: the stream raises, caught at line 197
StreamFail ==
    /\ pc = "l186"
    /\ streamFailed' = TRUE
    /\ open' = open - 1
    /\ pc' = "l199"
    /\ UNCHANGED <<prompt, visible, remember, context, update_text, p, exc,
                   response, completion_text, hpc, req, nsub,
                   overflowsLeft, sent, bcast, ctxBefore, startLen,
                   shrinks, cuts, rung, clean, dropped, errs, slotId, utId,
                   pId, erased, lostId, resetInStream>>

\* line 196 appending to the list the request was made from
L196Snapshot ==
    /\ pc = "l196"
    /\ context' = Append(sent, Turn("assistant", completion_text))
    /\ pc' = "l203"
    /\ UNCHANGED <<prompt, visible, remember, update_text, p, exc,
                   response, completion_text, hpc, req, nsub,
                   overflowsLeft, open, sent, bcast, ctxBefore, startLen,
                   shrinks, cuts, rung, clean, dropped, errs, streamFailed,
                   slotId, utId, pId, erased, lostId, resetInStream>>

\* line 196
L196 ==
    /\ pc = "l196"
    /\ context' = Append(context, Turn("assistant", completion_text))
    /\ pc' = "l203"
    /\ UNCHANGED <<prompt, visible, remember, update_text, p, exc,
                   response, completion_text, hpc, req, nsub,
                   overflowsLeft, open, sent, bcast, ctxBefore, startLen,
                   shrinks, cuts, rung, clean, dropped, errs, streamFailed,
                   slotId, utId, pId, erased, lostId, resetInStream>>

\* line 199
L199 ==
    /\ pc = "l199"
    /\ bcast' = Append(bcast, ErrorMsg)
    /\ errs' = errs + 1
    /\ pc' = "l201"
    /\ UNCHANGED <<prompt, visible, remember, context, update_text, p, exc,
                   response, completion_text, hpc, req, nsub,
                   overflowsLeft, open, sent, ctxBefore, startLen, shrinks,
                   cuts, rung, clean, dropped, streamFailed, slotId, utId,
                   pId, erased, lostId, resetInStream>>

\* line 201 assigning a local instead of the global
L201NoReset ==
    /\ pc = "l201"
    /\ pc' = "l203"
    /\ UNCHANGED <<prompt, visible, remember, context, update_text, p, exc,
                   response, completion_text, hpc, req, nsub,
                   overflowsLeft, open, sent, bcast, ctxBefore, startLen,
                   shrinks, cuts, rung, clean, dropped, errs, streamFailed,
                   slotId, utId, pId, erased, lostId, resetInStream>>

\* line 201
L201 ==
    /\ pc = "l201"
    /\ context' = BaseContext
    /\ pc' = "l203"
    /\ UNCHANGED <<prompt, visible, remember, update_text, p, exc,
                   response, completion_text, hpc, req, nsub,
                   overflowsLeft, open, sent, bcast, ctxBefore, startLen,
                   shrinks, cuts, rung, clean, dropped, errs, streamFailed,
                   slotId, utId, pId, erased, lostId, resetInStream>>

\* line 203 moved into the try block: skipped when the exchange failed
L203InTry ==
    /\ pc = "l203"
    /\ bcast' = IF errs = 0 THEN Append(bcast, DoneMsg) ELSE bcast
    /\ pc' = "l204"
    /\ UNCHANGED <<prompt, visible, remember, context, update_text, p, exc,
                   response, completion_text, hpc, req, nsub,
                   overflowsLeft, open, sent, ctxBefore, startLen, shrinks,
                   cuts, rung, clean, dropped, errs, streamFailed, slotId,
                   utId, pId, erased, lostId, resetInStream>>

\* line 203
L203 ==
    /\ pc = "l203"
    /\ bcast' = Append(bcast, DoneMsg)
    /\ pc' = "l204"
    /\ UNCHANGED <<prompt, visible, remember, context, update_text, p, exc,
                   response, completion_text, hpc, req, nsub,
                   overflowsLeft, open, sent, ctxBefore, startLen, shrinks,
                   cuts, rung, clean, dropped, errs, streamFailed, slotId,
                   utId, pId, erased, lostId, resetInStream>>

\* line 204
L204 ==
    /\ pc = "l204"
    /\ prompt' = <<>>
    /\ erased' = IF slotId # pId THEN slotId ELSE 0
    /\ slotId' = 0
    /\ pc' = "l175"
    /\ UNCHANGED <<visible, remember, context, update_text, p, exc,
                   response, completion_text, hpc, req, nsub,
                   overflowsLeft, open, sent, bcast, ctxBefore, startLen,
                   shrinks, cuts, rung, clean, dropped, errs, streamFailed,
                   utId, pId, lostId, resetInStream>>

Ask == L79 \/ L80 \/ CreateOk \/ CreateOverflow \/ CreateOther \/ L89 \/ L90
          \/ L105 \/ L106 \/ L107

SendUpdate == Pickup \/ L179 \/ L183 \/ Ask \/ StreamEvent \/ StreamEnd
                 \/ StreamFail \/ L196 \/ L199 \/ L201 \/ L203 \/ L204

Next == Index \/ SendMessage \/ SendUpdate

Spec == Init /\ [][Next]_vars

\* the worker is a thread of its own: it is always scheduled again
FairSpec == Spec /\ WF_vars(SendUpdate)

----------------------------------------------------------------------------
(* ask run alone, from the contexts and prompts it can be called with *)

Question(i) == << Piece("question", i, i + 9) >>

Answer(i) == << Piece("answer", i, i + 9) >>

\* after remembered exchanges: system, user, assistant, user, assistant, ...
Remembered(n) ==
    [i \in 1..n |-> IF i = 1 THEN BaseContext[1]
                    ELSE IF i % 2 = 0 THEN Turn("user", Question(i))
                    ELSE Turn("assistant", Answer(i))]

\* after a first exchange whose user turn was dropped by line 107
Summarised(n) ==
    [i \in 1..n |-> IF i = 1 THEN BaseContext[1]
                    ELSE IF i % 2 = 0 THEN Turn("assistant", Answer(i))
                    ELSE Turn("user", Question(i))]

LadderContexts ==
    { Remembered(n) : n \in { m \in 1..MaxTurns : m % 2 = 1 } }
        \cup { Summarised(n) : n \in { m \in 1..MaxTurns : m % 2 = 0 } }

LadderPrompts == { Hello, Long, Summarize \o BlogText }

LadderInit ==
    /\ \E t \in LadderPrompts : prompt = t /\ update_text = t /\ p = t
    /\ visible = TRUE
    /\ remember \in BOOLEAN
    /\ context \in LadderContexts
    /\ pc = "l79"
    /\ exc = "none"
    /\ response = <<>>
    /\ completion_text = <<>>
    /\ hpc = "idle"
    /\ req = NoReq
    /\ nsub = 1
    /\ overflowsLeft = LadderOverflows
    /\ open = 0
    /\ sent = <<>>
    /\ bcast = << Emit(update_text, "user") >>
    /\ ctxBefore = context
    /\ startLen = Len(context)
    /\ shrinks = 0
    /\ cuts = 0
    /\ rung = 0
    /\ clean = TRUE
    /\ dropped = FALSE
    /\ errs = 0
    /\ streamFailed = FALSE
    /\ slotId = 1
    /\ utId = 1
    /\ pId = 1
    /\ erased = 0
    /\ lostId = 0
    /\ resetInStream = FALSE

LadderSpec == LadderInit /\ [][Ask]_vars

----------------------------------------------------------------------------
(* Properties *)

Last(s) == s[Len(s)]

Requesting == {"l79", "l80", "l86", "l89", "l90", "l105", "l106", "l107"}

\* C1: in every reachable state context has at least one turn and its first
\* turn has role system.
C1_SystemTurnFirst ==
    /\ Len(context) >= 1
    /\ context[1].role = "system"

\* C2: an exchange the worker has started always eventually ends: the worker
\* is back at the poll of line 175 with the slot cleared.
C2_ExchangeEnds ==
    InExchange ~> (pc = "l175" /\ prompt = <<>>)

\* C3: after a provider error that is not a context overflow the request is
\* not made again, and the exchange ends with one error message and with
\* context reset to the system turn.
C3_OtherErrorFails ==
    /\ exc = "other" => pc \notin {"l79", "l80", "l86"}
    /\ (exc = "other" /\ pc = "l204") => (errs = 1 /\ context = BaseContext)

\* an exchange that reached line 204 through the commit of line 196 after
\* line 107 dropped its user turn, with no overflow, no page load and no
\* request in between
CleanForgottenExchange ==
    /\ pc = "l204"
    /\ clean
    /\ dropped
    /\ errs = 0

\* C4 as stated: an exchange that is not remembered leaves context with the
\* number of turns it had when the exchange started.
C4_NetZeroTurns ==
    CleanForgottenExchange => Len(context) = startLen

\* C4: an exchange that is not remembered and completes leaves context with
\* one turn more than it had: the user turn is gone, the assistant turn stays.
C4_NetOneTurn ==
    CleanForgottenExchange =>
        /\ Len(context) = startLen + 1
        /\ context = Append(ctxBefore, Turn("assistant", completion_text))

C4_Witness ==
    /\ CleanForgottenExchange
    /\ startLen = 2

\* C5: of the prompts written to the slot before the worker reads it, the
\* one written last is processed and the overwritten ones never are: the
\* worker neither copies an overwritten prompt (for the echo, for ask) nor
\* discards the prompt that is in the slot without passing it to ask.
C5_LatestOnly ==
    /\ lostId # 0 => (utId # lostId /\ pId # lostId)
    /\ erased = 0

\* C6: at most one provider call is open, it is the worker's, and no step of
\* send_message starts a call or moves the worker.
C6_SingleFlight ==
    /\ [](open <= 1 /\ (open = 1 => pc \in {"l86", "l105", "l106", "l107", "l186"}))
    /\ [][SendMessage => UNCHANGED <<pc, open, sent, context, p>>]_vars

C6_Witness ==
    /\ open = 1
    /\ slotId # 0
    /\ slotId # pId

\* the worker is back at line 79 after lines 89-103 handled an overflow
AfterOverflow == pc = "l79" /\ exc = "overflow"

\* the prompt of the attempt that failed: the last turn of the request
FailedPrompt == Last(sent).content

\* a pass of lines 89-103 leaves neither a longer prompt nor more turns
\* than the failed attempt started from
Monotone ==
    AfterOverflow =>
        /\ TLen(p) <= TLen(FailedPrompt)
        /\ Len(context) <= Len(ctxBefore)

\* C7 as stated: the ladder never increases the prompt length or the number
\* of turns, and after len(C) applications context is the system turn alone.
C7_WithinLenApplications ==
    /\ Monotone
    /\ (pc = "l79" /\ shrinks >= startLen) => context = BaseContext

\* C7: the ladder never increases the prompt length or the number of turns,
\* and context is the system turn alone after len(C) applications that did
\* not cut the prompt.
C7_WithinLenAfterCuts ==
    /\ Monotone
    /\ (pc = "l79" /\ shrinks - cuts >= startLen) => context = BaseContext

C7_Witness ==
    /\ pc = "l79"
    /\ startLen >= 3
    /\ cuts >= 1
    /\ shrinks - cuts = startLen
    /\ context = BaseContext

\* the first and the last k characters of a text
FirstChars(t, k) == Take(t, k)

LastChars(t, k) == Drop(t, TLen(t) - k)

Quarter(t) == TLen(t) \div 4

\* C8: an overflow on a prompt of more than 1000 characters changes only
\* the prompt: it becomes its first quarter, " ... " and its last quarter,
\* which is shorter (about 600 + 6 characters for 1200), and context is
\* what it was before the failed attempt.
C8_PromptCut ==
    (AfterOverflow /\ TLen(FailedPrompt) > 1000) =>
        /\ rung = 1
        /\ \E k \in {Quarter(FailedPrompt), Quarter(FailedPrompt) + 1} :
              /\ 4 * k >= TLen(FailedPrompt)
              /\ p = FirstChars(FailedPrompt, Quarter(FailedPrompt))
                        \o Lit(" ... ", 5) \o LastChars(FailedPrompt, k)
        /\ TLen(p) < TLen(FailedPrompt)
        /\ TLen(FailedPrompt) = 1200 => TLen(p) \in 600..606
        /\ context = ctxBefore

C8_Witness ==
    /\ AfterOverflow
    /\ FailedPrompt = Long
    /\ TLen(p) = 605
    /\ Len(context) = 5

\* C9: an overflow on a prompt of at most 1000 characters with more than 4
\* turns in context removes exactly the turns at positions 1 and 2: two
\* turns fewer, the system turn first, the turns from position 3 on in
\* their order; with 4 turns or fewer this branch is not taken.
C9_DropOldestPair ==
    (AfterOverflow /\ TLen(FailedPrompt) <= 1000) =>
        IF Len(ctxBefore) > 4
        THEN /\ rung = 2
             /\ Len(context) = Len(ctxBefore) - 2
             /\ context[1] = ctxBefore[1]
             /\ context[1].role = "system"
             /\ \A i \in 4..Len(ctxBefore) : context[i - 2] = ctxBefore[i]
             /\ p = FailedPrompt
        ELSE rung # 2

C9_Witness ==
    /\ AfterOverflow
    /\ rung = 2
    /\ Len(ctxBefore) = 6
    /\ Len(context) = 4

\* number of error messages among the emits of the current exchange
RECURSIVE Count(_, _)
Count(s, x) ==
    IF s = <<>> THEN 0
    ELSE (IF s[1] = x THEN 1 ELSE 0) + Count(Tail(s), x)

\* C10: when the stream raises, exactly one error message is emitted for
\* the exchange, context is the system turn alone afterwards, and the slot
\* is empty when the worker is back at line 175.
C10_StreamFailure ==
    (streamFailed /\ pc \in {"l203", "l204", "l175"}) =>
        /\ Count(bcast, ErrorMsg) = 1
        /\ context = BaseContext
        /\ Len(context) = 1
        /\ (pc = "l175" /\ slotId = 0) => prompt = <<>>

C10_Witness ==
    /\ streamFailed
    /\ pc = "l175"
    /\ prompt = <<>>
    /\ completion_text # <<>>
    /\ Count(bcast, ErrorMsg) = 1

----------------------------------------------------------------------------
(* C11: the fragments of a successful exchange *)

\* the broadcasts with voice 'ai', in order
Fragments(b) == SelectSeq(b, LAMBDA m : m.voice = "ai")

\* the content events of a stream, in order
ContentEvents(s) == SelectSeq(s, LAMBDA e : e.kind = "content")

\* the texts carried by a sequence of broadcasts
Updates(b) == [i \in 1..Len(b) |-> b[i].update]

\* the texts carried by a sequence of events
Texts(s) == [i \in 1..Len(s) |-> s[i].text]

RECURSIVE Concat(_)
\* the concatenation of a sequence of texts
Concat(ts) ==
    IF ts = <<>> THEN <<>> ELSE Head(ts) \o Concat(Tail(ts))

\* while the stream is read, the 'ai' broadcasts made so far followed by
\* the content events not yet taken are the content events of the stream
\* the provider returned, and completion_text is what has been broadcast
FragmentsInOrder ==
    pc \in {"l186", "l196"} =>
        /\ \E s \in Streams :
               Updates(Fragments(bcast)) \o Texts(ContentEvents(response))
                   = Texts(ContentEvents(s))
        /\ completion_text = Concat(Updates(Fragments(bcast)))

\* the step of line 196 leaves an assistant turn made of the broadcast
\* fragments at the end of context
CommitsBroadcast ==
    (pc = "l196" /\ pc' = "l203") =>
        /\ context' # <<>>
        /\ Last(context') =
               Turn("assistant", Concat(Updates(Fragments(bcast))))
        /\ bcast' = bcast

\* C11: in an exchange that does not fail, the content fragments are
\* broadcast with voice 'ai' in the provider's order, each before the next
\* event is taken, events without content broadcast nothing, and the
\* assistant turn appended at line 196 is the concatenation of exactly the
\* broadcast fragments.
C11_FragmentsCommitted == []FragmentsInOrder /\ [][CommitsBroadcast]_vars

C11_Witness ==
    /\ pc = "l203"
    /\ errs = 0
    /\ Len(Fragments(bcast)) = 2
    /\ context # <<>>
    /\ Last(context) = Turn("assistant", completion_text)
    /\ TLen(completion_text) = 13

----------------------------------------------------------------------------
(* C12: the order of the broadcasts of an exchange *)

\* the emit of line 159, made by send_message
IsReading(m) == m.voice = "user" /\ Take(m.update, 10) = Lit("[Reading: ", 10)

\* the broadcasts made by send_update and ask
WorkerEmits(b) == SelectSeq(b, LAMBDA m : ~IsReading(m))

\* an exchange nothing else interfered with, echoed, remembered and
\* answered at the first request
PlainExchange == clean /\ visible /\ ~dropped /\ errs = 0

\* the broadcasts of such an exchange and the context it leaves
EchoFragmentsDone ==
    (pc = "l204" /\ PlainExchange) =>
        /\ \E s \in Streams :
               bcast = <<Emit(p, "user")>>
                       \o [i \in 1..Len(ContentEvents(s)) |->
                               Emit(ContentEvents(s)[i].text, "ai")]
                       \o <<DoneMsg>>
        /\ context = ctxBefore \o <<Turn("user", p),
                                    Turn("assistant", completion_text)>>
        /\ (ctxBefore = BaseContext => Len(context) = 3)

\* one 'done' marker per exchange, after the worker's other broadcasts
OneDoneLast ==
    /\ (InExchange /\ pc # "l204") => Count(bcast, DoneMsg) = 0
    /\ pc = "l204" =>
           /\ Count(bcast, DoneMsg) = 1
           /\ Last(WorkerEmits(bcast)) = DoneMsg
           /\ DoneMsg.update = <<>>

----------------------------------------------------------------------------
(* C13: a prompt stored while an exchange is in flight *)

\* C13: the worker takes and clears the slot in one step at pickup, so a
\* prompt stored in the slot while the exchange of an earlier prompt is in
\* flight is not erased by that exchange: it is still in the slot when the
\* worker is back at line 175.
C13_PendingSurvives ==
    pc = "l175" => (erased = 0 \/ slotId = erased)

----------------------------------------------------------------------------
(* C14: a submission during an exchange *)

\* the prompt line 160 builds for a URL submission, whole or cut
IsSummary(t) == Take(t, TLen(Summarize)) = Summarize

\* C14: once the worker has picked a prompt up, the text it appends to
\* context and sends is the text it picked up and echoed, and the user turn
\* is dropped exactly when the picked-up text is the expanded prompt of a
\* URL submission, whatever is submitted during the exchange.
C14_AsksWhatItPicked ==
    /\ (InExchange /\ pc \notin {"l179", "l183"} /\ cuts = 0) =>
           p = update_text
    /\ pc = "l186" => (dropped <=> IsSummary(update_text))

----------------------------------------------------------------------------
(* C15: a page load during an exchange *)

\* the step of line 196
Commit == pc = "l196" /\ pc' = "l203"

\* index leaves the worker where it is, with its locals and its stream
ResetLeavesExchange ==
    Index => UNCHANGED <<pc, update_text, p, exc, response, completion_text,
                         open, bcast, prompt, visible, remember>>

\* line 196 appends to the list context names when it runs
CommitsToCurrent ==
    Commit => context' = Append(context, Turn("assistant", completion_text))

\* after a page load at lines 186-196 the commit leaves two turns
CommitsAfterReset ==
    (Commit /\ resetInStream) =>
        context' = <<Turn("system", baseprompt),
                     Turn("assistant", completion_text)>>

\* C15: a page load during an exchange leaves the exchange running with
\* its prompt, its stream and its broadcasts; the assistant turn is
\* appended to the context of the moment line 196 runs; after a page load
\* while the stream is read, the committed context is the system turn
\* followed by that assistant turn.
C15_ResetDuringExchange ==
    [][ResetLeavesExchange /\ CommitsToCurrent /\ CommitsAfterReset]_vars

C15_Witness ==
    /\ pc = "l203"
    /\ resetInStream
    /\ ~dropped
    /\ errs = 0
    /\ Len(sent) >= 2
    /\ context = <<Turn("system", baseprompt),
                   Turn("assistant", completion_text)>>

----------------------------------------------------------------------------
(* C16: the flags an exchange is processed with *)

\* C16: every exchange is processed with the flags submitted with the text
\* it processes: the user turn is dropped exactly when the text is the
\* expanded prompt of a URL submission, a plain prompt submitted with
\* show = true is echoed, and no expanded prompt is ever echoed.
C16_FlagsOfTheText ==
    /\ pc = "l186" => (dropped <=> IsSummary(p))
    /\ \A i \in 1..Len(bcast) :
           bcast[i].voice = "user" => ~IsSummary(bcast[i].update)
    /\ (InExchange /\ pc # "l179" /\ ~IsSummary(update_text)) =>
           \A r \in Requests :
               (r.text = update_text /\ r.show) =>
                   \E i \in 1..Len(bcast) :
                       bcast[i] = Emit(update_text, "user")

----------------------------------------------------------------------------
(* C17: what the overflow ladder broadcasts *)

\* lines 90-103 run for an overflow error
OverflowStep == pc = "l90" /\ exc = "overflow" /\ pc' # "l90"

\* the third step is due: the prompt has at most 1000 characters and the
\* context, the failed user turn popped, at most 4 turns
ThirdStepDue == TLen(p) <= PromptLimit /\ Len(context) <= ContextLimit

NoticeOnlyOnReset ==
    OverflowStep =>
        /\ ThirdStepDue =>
               /\ bcast' = Append(bcast, MemoryReset)
               /\ MemoryReset.voice = "user"
               /\ context' = BaseContext
               /\ p' = p
        /\ ~ThirdStepDue => bcast' = bcast
        /\ errs' = errs
        /\ pc' = "l79"

\* C17: the prompt cut and the context truncation broadcast nothing; the
\* '[Memory Reset]' notice with voice 'user' is broadcast exactly when the
\* third step is taken, and context is then the system turn alone when the
\* prompt is appended again; an overflow broadcasts no error message: the
\* step adds nothing else to the broadcasts and goes back to line 79.
C17_NoticeOnlyOnReset == [][NoticeOnlyOnReset]_vars

C17_Witness ==
    /\ AfterOverflow
    /\ rung = 3
    /\ bcast # <<>>
    /\ Last(bcast) = MemoryReset
    /\ Count(bcast, MemoryReset) = 1
    /\ shrinks >= 2
    /\ context = BaseContext

----------------------------------------------------------------------------
(* C18: a user turn appended to an empty context *)

\* C18: context never starts with a user turn, and no request is made from
\* a list that starts with one.
C18_NoUserTurnFirst ==
    /\ context # <<>> => context[1].role # "user"
    /\ sent # <<>> => sent[1].role # "user"

----------------------------------------------------------------------------
(* C19: a URL submission whose fetch gives no text *)

\* the only request so far has ended without storing a prompt and the
\* worker has picked nothing up: it was a URL whose fetch gave no text
FirstFetchFailed ==
    nsub = 1 /\ hpc = "idle" /\ slotId = 0 /\ utId = 0 /\ pc = "l175"

\* C19: after a URL submission whose fetch gave no text, prompt, visible
\* and remember are what they were before it.
C19_FailedFetchNoEffect ==
    FirstFetchFailed => (prompt = <<>> /\ visible /\ remember)

============================================================================
